---- MODULE Spec2Model ----
(***************************************************************************)
(* Expressions.js: the literal isolator (strings.js), the compile entry    *)
(* points parse / parseSetter with their cache (expressions.js, both       *)
(* revisions held in the source file) and the invocation of the compiled   *)
(* callables.                                                              *)
(*                                                                         *)
(* A text is a sequence of one-character strings; an identifier is kept as *)
(* one element because no regular expression of the program looks inside   *)
(* one.                                                                    *)
(***************************************************************************)
EXTENDS Integers, Sequences, FiniteSets, TLC

VARIABLES
  rev,            \* which revision of expressions.js is loaded
  strings,        \* strings.js: the literal table (var strings)
  cache,          \* expressions.js: var cache
  valueProperty,  \* expressions.js: var valueProperty
  expGlobals,     \* expressions.js: exports.globals
  callerArgs,     \* an extra-argument array owned by the caller
  nextId,         \* identity of the next function object created
  lit,            \* the last text isolated and what isolate returned
  req,            \* the compile request that built the callable under test
  res,            \* what the last operation was given and what it did
  hist            \* what the compile calls so far returned and threw

vars == <<rev, strings, cache, valueProperty, expGlobals, callerArgs, nextId, lit,
          req, res, hist>>

(***************************************************************************)
(* Bounds                                                                  *)
(***************************************************************************)
MaxLen == 4
\* links after the root of a property chain
MaxLinks == 2
MaxArgs == 2
\* compile calls made on one loaded module
MaxCalls == 3

(***************************************************************************)
(* strings.js                                                              *)
(***************************************************************************)
SQ == "'"
DQ == "\""
SL == "/"
BS == "\\"
\* the character U+0001: inside a character class \1 is an octal escape
SOH == "<01>"

quoteChars == {SQ, DQ, SL}

\* var strings = null
NoStrings == [pending |-> FALSE, list |-> <<>>]

\* quoteRegex, after the opening quote q: the lazy group has consumed s up to
\* p-1.  The closing \1 is tried first, then one more iteration: \\\1 and,
\* when what follows it cannot match, [^\1].  0 when there is no match.
RECURSIVE quoteRegexEnd(_, _, _)
quoteRegexEnd(s, q, p) ==
  IF p > Len(s) THEN 0
  ELSE IF s[p] = q THEN p
  ELSE IF s[p] = BS /\ p < Len(s) /\ s[p + 1] = q
    THEN LET r == quoteRegexEnd(s, q, p + 2)
         IN  IF r # 0 THEN r ELSE quoteRegexEnd(s, q, p + 1)
  ELSE IF s[p] = SOH THEN 0
  ELSE quoteRegexEnd(s, q, p + 1)

\* quoteRegex: where the match that starts at i ends, 0 when none starts there
quoteRegex(s, i) ==
  IF s[i] \in quoteChars THEN quoteRegexEnd(s, s[i], i + 1) ELSE 0

\* expr.replace(quoteRegex, function(str, quote) {...}) from position i on
RECURSIVE pullOutReplace(_, _, _, _)
pullOutReplace(s, i, out, strs) ==
  IF i > Len(s) THEN [out |-> out, strs |-> strs]
  ELSE LET e == quoteRegex(s, i)
       IN  IF e # 0
           THEN pullOutReplace(s, e + 1, out \o <<s[i], s[i]>>,
                               Append(strs, SubSeq(s, i, e)))
           ELSE pullOutReplace(s, i + 1, Append(out, s[i]), strs)

\* emptyQuoteExpr matches at i
emptyQuoteExpr(s, i) ==
  s[i] \in quoteChars /\ i < Len(s) /\ s[i + 1] = s[i]

\* a faulty shift: strings.pop(), the last literal instead of the first
shiftTextLast(strs) == IF strs = <<>> THEN <<"undefined">> ELSE strs[Len(strs)]

\* strings.shift() used as a replacement: undefined becomes the text
\* "undefined" when the table is empty
shiftText(strs) == IF strs = <<>> THEN <<"undefined">> ELSE Head(strs)

shiftRest(strs) == IF strs = <<>> THEN <<>> ELSE Tail(strs)

\* where emptyQuoteExpr matches next from position i on, 0 when nowhere
nextEmptyQuote(s, i) ==
  LET M == {j \in i..Len(s) : emptyQuoteExpr(s, j)}
  IN  IF M = {} THEN 0 ELSE CHOOSE j \in M : \A k \in M : j <= k

\* expr.replace(emptyQuoteExpr, function() { return strings.shift(); })
\* from position i on
RECURSIVE putInReplace(_, _, _)
putInReplace(s, i, strs) ==
  LET j == nextEmptyQuote(s, i)
  IN  IF j = 0 THEN SubSeq(s, i, Len(s))
      ELSE SubSeq(s, i, j - 1) \o shiftText(strs)
             \o putInReplace(s, j + 2, shiftRest(strs))

MisusePull == "putInStrings must be called after pullOutStrings."
MisusePut == "pullOutStrings must be called before putInStrings."

\* a faulty pullOutStrings: without the check of line 16, a pending table is
\* overwritten
pullOutStringsUnchecked(tbl, expr) ==
  LET r == pullOutReplace(expr, 1, <<>>, <<>>)
  IN  [strings |-> [pending |-> TRUE, list |-> r.strs],
       ok |-> TRUE, err |-> "", out |-> r.out]

\* exports.pullOutStrings: the table after the call, and the text returned
\* or the error thrown
pullOutStrings(tbl, expr) ==
  IF tbl.pending
  THEN [strings |-> tbl, ok |-> FALSE, err |-> MisusePull, out |-> <<>>]
  ELSE LET r == pullOutReplace(expr, 1, <<>>, <<>>)
       IN  [strings |-> [pending |-> TRUE, list |-> r.strs],
            ok |-> TRUE, err |-> "", out |-> r.out]

\* a faulty putInStrings: without the check of line 33, a text is restored
\* from a table that is not there
putInStringsUnchecked(tbl, expr) ==
  [strings |-> NoStrings, ok |-> TRUE, err |-> "",
   out |-> putInReplace(expr, 1, tbl.list)]

\* exports.putInStrings
putInStrings(tbl, expr) ==
  IF ~tbl.pending
  THEN [strings |-> tbl, ok |-> FALSE, err |-> MisusePut, out |-> <<>>]
  ELSE [strings |-> NoStrings, ok |-> TRUE, err |-> "",
        out |-> putInReplace(expr, 1, tbl.list)]

(***************************************************************************)
(* JavaScript values and the run of a generated function body              *)
(*                                                                         *)
(* A value is a tuple whose first element is its type.  An object holds a  *)
(* function from its own property names to values.  A function value says  *)
(* what the caller-supplied code does when called: return a value, throw,  *)
(* return a property of its this, or return a record of how it was called. *)
(***************************************************************************)
Undefined == <<"undefined">>
Null == <<"null">>
True == <<"bool", TRUE>>
False == <<"bool", FALSE>>
Prim(p) == <<"prim", p>>
Obj(f) == <<"obj", f>>
Fn(kind, payload) == <<"fn", kind, payload>>
TypeError == <<"TypeError">>

\* v == null
IsNullish(v) == v = Undefined \/ v = Null
\* typeof v === 'function'
IsFunction(v) == v[1] = "fn"
IsObject(v) == v[1] = "obj"

\* !v
Not(v) == <<"bool", v = Undefined \/ v = Null \/ v = False>>

\* v.n for a v that is not null or undefined
GetProp(v, n) ==
  IF IsObject(v) /\ n \in DOMAIN v[2] THEN v[2][n] ELSE Undefined

\* o.path[1]. ... .n = v, o an object and every step of the path an object
RECURSIVE SetAt(_, _, _, _)
SetAt(o, path, n, v) ==
  IF path = <<>>
  THEN Obj([k \in DOMAIN o[2] \cup {n} |-> IF k = n THEN v ELSE o[2][k]])
  ELSE Obj([o[2] EXCEPT ![Head(path)] = SetAt(@, Tail(path), n, v)])

Return(v, this) == [tag |-> "return", val |-> v, this |-> this]
Throw(e, this) == [tag |-> "throw", val |-> e, this |-> this]

\* f.call(thisv, ...args) for a function value f: the value it returns or
\* the exception it throws
CallFn(f, thisv, args) ==
  CASE f[2] = "ret" -> [tag |-> "return", val |-> f[3]]
    [] f[2] = "throw" -> [tag |-> "throw", val |-> f[3]]
    [] f[2] = "retthis" -> [tag |-> "return", val |-> GetProp(thisv, f[3])]
    [] OTHER -> [tag |-> "return", val |-> <<"app", f[3], thisv, args>>]

\* an identifier the body leaves unqualified: a formal parameter, else a
\* name of the host's global scope
LookupBare(env, n) ==
  IF n \in DOMAIN env.args THEN env.args[n] ELSE <<"host", n>>

\* The guarded chain of a body, one step at a time.  m.cur is the value
\* reached, m.recv the value it was read from (the this of a call), m.at
\* whether m.cur is the object found in this at m.path.  rv is the run of
\* the right-hand side of an assignment, used only by the step that assigns.
RECURSIVE RunOps(_, _, _, _, _)
RunOps(ops, i, m, env, rv) ==
  IF i > Len(ops) THEN Return(m.cur, env.this)
  ELSE LET o == ops[i] IN
    CASE o.op = "this" ->
           RunOps(ops, i + 1, [cur |-> env.this, recv |-> Undefined,
                               at |-> TRUE, path |-> <<>>, rat |-> FALSE,
                               rpath |-> <<>>], env, rv)
      [] o.op = "bare" ->
           RunOps(ops, i + 1, [cur |-> LookupBare(env, o.n), recv |-> Undefined,
                               at |-> FALSE, path |-> <<>>, rat |-> FALSE,
                               rpath |-> <<>>], env, rv)
      [] o.op = "lit" ->
           RunOps(ops, i + 1, [cur |-> <<"str", o.n>>, recv |-> Undefined,
                               at |-> FALSE, path |-> <<>>, rat |-> FALSE,
                               rpath |-> <<>>], env, rv)
      [] o.op = "nullguard" ->
           IF IsNullish(m.cur) THEN Return(Undefined, env.this)
           ELSE RunOps(ops, i + 1, m, env, rv)
      [] o.op = "fnguard" ->
           IF ~IsFunction(m.cur) THEN Return(Undefined, env.this)
           ELSE RunOps(ops, i + 1, m, env, rv)
      [] o.op = "get" ->
           IF IsNullish(m.cur) THEN Throw(TypeError, env.this)
           ELSE RunOps(ops, i + 1,
                       [cur |-> GetProp(m.cur, o.n), recv |-> m.cur,
                        at |-> m.at /\ IsObject(m.cur)
                                 /\ IsObject(GetProp(m.cur, o.n)),
                        path |-> Append(m.path, o.n),
                        rat |-> m.at, rpath |-> m.path], env, rv)
      [] o.op = "call" ->
           IF ~IsFunction(m.cur) THEN Throw(TypeError, env.this)
           ELSE LET r == CallFn(m.cur, m.recv, <<>>) IN
                IF r.tag = "throw" THEN Throw(r.val, env.this)
                ELSE RunOps(ops, i + 1,
                            [cur |-> r.val, recv |-> Undefined,
                             at |-> m.rat /\ m.cur[2] = "retthis"
                                      /\ IsObject(r.val),
                             path |-> IF m.cur[2] = "retthis"
                                      THEN Append(m.rpath, m.cur[3])
                                      ELSE <<>>,
                             rat |-> FALSE, rpath |-> <<>>], env, rv)
      [] o.op = "set" ->
           IF rv.tag = "throw" THEN Throw(rv.val, env.this)
           ELSE IF IsNullish(m.cur) THEN Throw(TypeError, env.this)
           ELSE IF m.at
             THEN Return(rv.val, SetAt(env.this, m.path, o.n, rv.val))
           ELSE Return(rv.val, env.this)
      [] OTHER -> \* "setlocal": a formal parameter is assigned
           IF rv.tag = "throw" THEN Throw(rv.val, env.this)
           ELSE Return(rv.val, env.this)

NoM == [cur |-> Undefined, recv |-> Undefined, at |-> FALSE, path |-> <<>>,
        rat |-> FALSE, rpath |-> <<>>]

\* an identifier used as a formatter argument or as the assigned value
EvalIdent(a, env) == RunOps(a, 1, NoM, env, Return(Undefined, env.this))

\* the values of formatter arguments as, in order
RECURSIVE EvalArgs(_, _)
EvalArgs(as, env) ==
  IF as = <<>> THEN <<>>
  ELSE <<EvalIdent(Head(as), env).val>> \o EvalArgs(Tail(as), env)

\* The value the first k formatter calls are applied to and their result:
\* _formatters_.fk.call(this, <the first k-1 applied>, args..., [true]),
\* each call behind the guards of its own chain.
RECURSIVE EvalFmts(_, _, _)
EvalFmts(sem, k, env) ==
  IF k = 0
  THEN IF sem.kind = "set"
       THEN LET r == EvalIdent(sem.rhs, env)
            IN  IF sem.negv THEN Return(Not(r.val), env.this) ELSE r
       ELSE LET r == RunOps(sem.ops, 1, NoM, env, Return(Undefined, env.this))
            IN  IF sem.neg /\ r.tag = "return"
                THEN Return(Not(r.val), env.this) ELSE r
  ELSE LET F == LookupBare(env, "_formatters_")
           f == GetProp(F, sem.fmts[k].name)
       IN  IF IsNullish(F) \/ IsNullish(f) \/ ~IsFunction(f)
           THEN Return(Undefined, env.this)
           ELSE LET inner == EvalFmts(sem, k - 1, env) IN
                IF inner.tag = "throw" THEN inner
                ELSE LET r == CallFn(f, env.this,
                                     <<inner.val>> \o EvalArgs(sem.fmts[k].args, env)
                                       \o (IF sem.kind = "set" THEN <<True>> ELSE <<>>))
                     IN  [tag |-> r.tag, val |-> r.val, this |-> env.this]

\* the run of a whole body: its completion (the value of its expression
\* statement or the exception) and the binding context afterwards
EvalBody(sem, env) ==
  IF sem.kind = "set"
  THEN RunOps(sem.ops, 1, NoM, env, EvalFmts(sem, Len(sem.fmts), env))
  ELSE EvalFmts(sem, Len(sem.fmts), env)

(***************************************************************************)
(* formatters.js and property-chains.js: the two transform stages          *)
(*                                                                         *)
(* Their source is not part of the files at hand; they are modelled from   *)
(* the specification (4.2, 4.3) and from the generated texts their tests   *)
(* expect.  The expressions understood are                                 *)
(*   ["!"] root {"." name | "()"} [" = " ["!"] "_value_"]                *)
(*         {" | " formatter ["(" name {", " name} ")"]}                 *)
(* and every other text comes out as a body that is not valid JavaScript.  *)
(***************************************************************************)
Idents == {"a", "b", "c", "m", "x", "y", "f", "g", "_value_"}

IsIdent(t) == t \in Idents

\* a "|" that is not part of "||"
IsPipe(s, i) ==
  /\ s[i] = "|"
  /\ (i > 1 => s[i - 1] # "|")
  /\ (i < Len(s) => s[i + 1] # "|")

RECURSIVE FirstPipe(_, _)
FirstPipe(s, i) ==
  IF i > Len(s) THEN 0
  ELSE IF IsPipe(s, i) THEN i
  ELSE FirstPipe(s, i + 1)

RECURSIVE Trim(_)
Trim(s) ==
  IF s = <<>> THEN s
  ELSE IF Head(s) = " " THEN Trim(Tail(s))
  ELSE IF s[Len(s)] = " " THEN Trim(SubSeq(s, 1, Len(s) - 1))
  ELSE s

\* the text split at its pipes: the expression, then the formatter segments
RECURSIVE SplitPipes(_)
SplitPipes(s) ==
  LET i == FirstPipe(s, 1)
  IN  IF i = 0 THEN <<Trim(s)>>
      ELSE <<Trim(SubSeq(s, 1, i - 1))>> \o SplitPipes(SubSeq(s, i + 1, Len(s)))

IsSuffix(t, s) ==
  Len(t) <= Len(s) /\ SubSeq(s, Len(s) - Len(t) + 1, Len(s)) = t

AsgValue == <<" ", "=", " ", "_value_">>
AsgNotValue == <<" ", "=", " ", "!", "_value_">>

\* the links after the root: ".name" and "()"
RECURSIVE ParseLinks(_, _, _)
ParseLinks(s, i, acc) ==
  IF i > Len(s) THEN [ok |-> TRUE, links |-> acc]
  ELSE IF s[i] = "." /\ i < Len(s) /\ IsIdent(s[i + 1])
    THEN ParseLinks(s, i + 2, Append(acc, [k |-> "prop", n |-> s[i + 1]]))
  ELSE IF s[i] = "(" /\ i < Len(s) /\ s[i + 1] = ")"
    THEN ParseLinks(s, i + 2, Append(acc, [k |-> "call", n |-> ""]))
  ELSE [ok |-> FALSE, links |-> <<>>]

\* a chain: an identifier or an emptied literal, then links
ParseChain(s) ==
  IF s # <<>> /\ IsIdent(s[1])
  THEN LET r == ParseLinks(s, 2, <<>>)
       IN  [ok |-> r.ok, lit |-> FALSE, root |-> s[1], links |-> r.links]
  ELSE IF Len(s) = 2 /\ s[1] \in {SQ, DQ} /\ s[2] = s[1]
  THEN [ok |-> TRUE, lit |-> TRUE, root |-> s[1], links |-> <<>>]
  ELSE [ok |-> FALSE, lit |-> FALSE, root |-> "", links |-> <<>>]

\* name {", " name}
RECURSIVE ParseArgs(_, _, _)
ParseArgs(s, i, acc) ==
  IF i > Len(s) \/ ~IsIdent(s[i]) THEN [ok |-> FALSE, args |-> <<>>]
  ELSE IF i = Len(s) THEN [ok |-> TRUE, args |-> Append(acc, s[i])]
  ELSE IF i + 2 < Len(s) + 1 /\ s[i + 1] = "," /\ s[i + 2] = " "
    THEN ParseArgs(s, i + 3, Append(acc, s[i]))
  ELSE [ok |-> FALSE, args |-> <<>>]

\* a formatter segment: name, or name(args)
ParseFmt(s) ==
  IF s = <<>> \/ ~IsIdent(s[1]) THEN [ok |-> FALSE, name |-> "", args |-> <<>>]
  ELSE IF Len(s) = 1 THEN [ok |-> TRUE, name |-> s[1], args |-> <<>>]
  ELSE IF Len(s) = 3 /\ s[2] = "(" /\ s[3] = ")"
    THEN [ok |-> TRUE, name |-> s[1], args |-> <<>>]
  ELSE IF Len(s) > 3 /\ s[2] = "(" /\ s[Len(s)] = ")"
    THEN LET r == ParseArgs(SubSeq(s, 3, Len(s) - 1), 1, <<>>)
         IN  [ok |-> r.ok, name |-> s[1], args |-> r.args]
  ELSE [ok |-> FALSE, name |-> "", args |-> <<>>]

\* the assignment a setter text ends its expression with
Assignment(head) ==
  IF IsSuffix(AsgNotValue, head) THEN "notvalue"
  ELSE IF IsSuffix(AsgValue, head) THEN "value" ELSE "none"

\* the expression without its assignment
AssignTarget(head, asg) ==
  CASE asg = "notvalue" -> SubSeq(head, 1, Len(head) - Len(AsgNotValue))
    [] asg = "value" -> SubSeq(head, 1, Len(head) - Len(AsgValue))
    [] OTHER -> head

\* a text read as: negated, assigned, the chain ch, the formatters fm
Parsed(neg, asg, ch, fm) ==
  [ok |-> /\ ch.ok
          /\ \A i \in 1..Len(fm) : fm[i].ok
          /\ asg # "none" =>
               /\ ~neg /\ ~ch.lit
               /\ (ch.links # <<>> => ch.links[Len(ch.links)].k = "prop"),
   neg |-> neg, asg |-> asg, lit |-> ch.lit, root |-> ch.root,
   links |-> ch.links,
   fmts |-> [i \in 1..Len(fm) |-> [name |-> fm[i].name, args |-> fm[i].args]]]

\* the segments between the pipes read: the expression, then the formatters
ParseSegs(neg, segs, asg) ==
  Parsed(neg, asg, ParseChain(AssignTarget(segs[1], asg)),
         [i \in 1..(Len(segs) - 1) |-> ParseFmt(segs[i + 1])])

ParseNegated(neg, segs) == ParseSegs(neg, segs, Assignment(segs[1]))

\* what the two stages read in a text that pullOutStrings has emptied of
\* its literals
ParseText(s) ==
  IF s # <<>> /\ s[1] = "!" THEN ParseNegated(TRUE, SplitPipes(Tail(s)))
  ELSE ParseNegated(FALSE, SplitPipes(s))

\* how the transformer qualifies an identifier: found in the variables with
\* a value, it is read from _globals_; found with null (an extra argument,
\* a host name), it is left alone; not found, it is read from this
Resolve(n, variables) ==
  IF <<n>> \in DOMAIN variables
  THEN IF variables[<<n>>] = Null THEN "bare" ELSE "globals"
  ELSE "this"

Op(o, n) == [op |-> o, n |-> n]

\* the code that reads an identifier
IdentOps(n, variables) ==
  CASE Resolve(n, variables) = "this" -> <<Op("this", ""), Op("get", n)>>
    [] Resolve(n, variables) = "globals" ->
         <<Op("bare", "_globals_"), Op("nullguard", ""), Op("get", n)>>
    [] OTHER -> <<Op("bare", n)>>

\* the guards of the links: a property is read only from a value that is
\* not null, a call is made only on a function
RECURSIVE LinkOps(_)
LinkOps(links) ==
  IF links = <<>> THEN <<>>
  ELSE (IF Head(links).k = "prop"
        THEN <<Op("nullguard", ""), Op("get", Head(links).n)>>
        ELSE <<Op("fnguard", ""), Op("call", "")>>) \o LinkOps(Tail(links))

\* the guarded code of a chain
ChainOps(p, variables) ==
  (IF p.lit THEN <<Op("lit", p.root)>> ELSE IdentOps(p.root, variables))
    \o LinkOps(p.links)

\* the final link of an assignment target is assigned, not read
TargetOps(ops) ==
  IF ops[Len(ops)].op = "get"
  THEN [ops EXCEPT ![Len(ops)] = Op("set", ops[Len(ops)].n)]
  ELSE Append(ops, Op("setlocal", ""))

\* what the body generated for the parsed text p does
Generate(p, variables) ==
  IF ~p.ok
  THEN [ok |-> FALSE, kind |-> "bad", neg |-> FALSE, negv |-> FALSE,
        ops |-> <<>>, rhs |-> <<>>, fmts |-> <<>>]
  ELSE [ok |-> TRUE,
        kind |-> IF p.asg = "none" THEN "get" ELSE "set",
        neg |-> p.neg,
        negv |-> p.asg = "notvalue",
        ops |-> IF p.asg = "none" THEN ChainOps(p, variables)
                ELSE TargetOps(ChainOps(p, variables)),
        rhs |-> IdentOps("_value_", variables),
        fmts |-> [i \in 1..Len(p.fmts) |->
                    [name |-> p.fmts[i].name,
                     args |-> [j \in 1..Len(p.fmts[i].args) |->
                                 IdentOps(p.fmts[i].args[j], variables)]]]]

\* parseFormatters then parseExpression: what the generated body does
Transform(s, variables) == Generate(ParseText(s), variables)

\* the names of the reference temporaries, in the order they are declared
RefNames == <<"_ref1", "_ref2", "_ref3", "_ref4", "_ref5", "_ref6", "_ref7",
              "_ref8", "_ref9", "_ref10", "_ref11", "_ref12">>

GuardNull == " == null ? void 0 : "
GuardFn == " !== 'function' ? void 0 : "

\* the text of guarded code: out holds the guards written so far, acc the
\* expression being extended, k the temporaries used
RECURSIVE RenderOps(_, _, _, _, _, _)
RenderOps(ops, i, out, acc, k, rhs) ==
  IF i > Len(ops) THEN [text |-> out \o acc, k |-> k]
  ELSE LET o == ops[i] IN
    CASE o.op = "this" -> RenderOps(ops, i + 1, out, <<"this">>, k, rhs)
      [] o.op = "bare" -> RenderOps(ops, i + 1, out, <<o.n>>, k, rhs)
      [] o.op = "lit" -> RenderOps(ops, i + 1, out, <<o.n, o.n>>, k, rhs)
      [] o.op = "nullguard" ->
           RenderOps(ops, i + 1,
                     out \o <<"(", RefNames[k + 1], " = ">> \o acc
                         \o <<")", GuardNull>>,
                     <<RefNames[k + 1]>>, k + 1, rhs)
      [] o.op = "fnguard" ->
           RenderOps(ops, i + 1, out \o <<"typeof ">> \o acc \o <<GuardFn>>,
                     acc, k, rhs)
      [] o.op = "get" -> RenderOps(ops, i + 1, out, acc \o <<".", o.n>>, k, rhs)
      [] o.op = "call" -> RenderOps(ops, i + 1, out, acc \o <<"(", ")">>, k, rhs)
      [] o.op = "set" ->
           RenderOps(ops, i + 1, out, acc \o <<".", o.n, " = ">> \o rhs, k, rhs)
      [] OTHER -> RenderOps(ops, i + 1, out, acc \o <<" = ">> \o rhs, k, rhs)

\* a chain used as an operand: in parentheses when it is guarded
RenderOperand(ops, k) ==
  LET r == RenderOps(ops, 1, <<>>, <<>>, k, <<>>)
  IN  IF Len(ops) > 2 THEN [text |-> <<"(">> \o r.text \o <<")">>, k |-> r.k]
      ELSE r

RECURSIVE RenderArgs(_, _)
RenderArgs(as, k) ==
  IF as = <<>> THEN [text |-> <<>>, k |-> k]
  ELSE LET r == RenderOperand(Head(as), k)
           t == RenderArgs(Tail(as), r.k)
       IN  [text |-> <<",", " ">> \o r.text \o t.text, k |-> t.k]

\* the text of the first j formatter calls around the value
RECURSIVE RenderFmts(_, _, _)
RenderFmts(sem, j, k) ==
  IF j = 0
  THEN IF sem.kind = "set"
       THEN LET r == RenderOperand(sem.rhs, k)
            IN  [text |-> (IF sem.negv THEN <<"!">> ELSE <<>>) \o r.text, k |-> r.k]
       ELSE LET r == RenderOperand(sem.ops, k)
            IN  [text |-> (IF sem.neg THEN <<"!">> ELSE <<>>) \o r.text, k |-> r.k]
  ELSE LET r1 == RefNames[k + 1]
           r2 == RefNames[k + 2]
           inner == RenderFmts(sem, j - 1, k + 2)
           args == RenderArgs(sem.fmts[j].args, inner.k)
       IN  [text |-> <<"(", "(", r1, " = ", "_formatters_", ")", GuardNull,
                       "(", r2, " = ", r1, ".", sem.fmts[j].name, ")", GuardNull,
                       "typeof ", r2, ".", "call", GuardFn,
                       r2, ".", "call", "(", "this", ",", " ">>
                       \o inner.text \o args.text
                       \o (IF sem.kind = "set" THEN <<",", " ", "true">> ELSE <<>>)
                       \o <<")", ")">>,
            k |-> args.k]

RECURSIVE RefDecl(_, _)
RefDecl(i, k) ==
  IF i > k THEN <<>>
  ELSE <<RefNames[i]>> \o (IF i < k THEN <<",", " ">> ELSE <<>>) \o RefDecl(i + 1, k)

\* the identifiers of a text that is not understood are still qualified
RECURSIVE QualifyAll(_, _)
QualifyAll(s, variables) ==
  IF s = <<>> THEN <<>>
  ELSE (IF IsIdent(Head(s))
        THEN RenderOps(IdentOps(Head(s), variables), 1, <<>>, <<>>, 0, <<>>).text
        ELSE <<Head(s)>>) \o QualifyAll(Tail(s), variables)

\* the temporaries the guards of ops use
NullGuards(ops) == Cardinality({i \in 1..Len(ops) : ops[i].op = "nullguard"})

\* the declaration of the temporaries on a line of its own, then the
\* expression: the value val, assigned to the target when there is one
RenderBody(sem, val) ==
  (IF val.k > 0 THEN <<"var ">> \o RefDecl(1, val.k) \o <<";", "\n">> ELSE <<>>)
    \o (IF sem.kind = "set"
        THEN RenderOps(sem.ops, 1, <<>>, <<>>, 0, val.text).text
        ELSE val.text)

\* the text of a body that does sem; s when the text is not understood
RenderSem(s, variables, sem) ==
  IF ~sem.ok THEN QualifyAll(s, variables)
  ELSE RenderBody(sem, RenderFmts(sem, Len(sem.fmts),
                                  IF sem.kind = "set" THEN NullGuards(sem.ops) ELSE 0))

\* the text the two stages return
TransformText(s, variables) == RenderSem(s, variables, Transform(s, variables))

(***************************************************************************)
(* expressions.js                                                          *)
(*                                                                         *)
(* The file holds two revisions of the module: the one whose parse takes   *)
(* the extra-argument names as trailing arguments ("variadic") and the one *)
(* whose parse takes them as an array ("array").  rev says which is        *)
(* loaded.  An expression argument is [str, text]: whether it is a String, *)
(* and the text it is or converts to.                                      *)
(***************************************************************************)
Str(t) == [str |-> TRUE, text |-> t]
NonStr(t) == [str |-> FALSE, text |-> t]

NoError == [name |-> "none", message |-> <<>>]
Error(name, message) == [name |-> name, message |-> message]

NoFunc == [id |-> 0, func |-> [ok |-> FALSE], args |-> <<>>, expr |-> <<>>]

\* extraArgs.join(',')
RECURSIVE join(_)
join(names) ==
  IF names = <<>> THEN <<>>
  ELSE IF Len(names) = 1 THEN names[1]
  ELSE names[1] \o <<",">> \o join(Tail(names))

\* var cacheKey = expr + '|' + extraArgs.join(',')
cacheKey(text, extraArgs) == text \o <<"|">> \o join(extraArgs)

\* a faulty getVariables: the default globals are left out
getVariablesNoDefaults(eg, globals, extraArgs) ==
  LET gk == IF IsObject(globals) THEN {<<n>> : n \in DOMAIN globals[2]} ELSE {}
      ak == {extraArgs[i] : i \in DOMAIN extraArgs}
  IN  [k \in gk \cup ak |-> IF k \in ak THEN Null ELSE globals[2][k[1]]]

\* getVariables: the default globals, then the globals of the call, then
\* every extra-argument name with the value null
getVariables(eg, globals, extraArgs) ==
  LET gk == IF IsObject(globals) THEN {<<n>> : n \in DOMAIN globals[2]} ELSE {}
      ak == {extraArgs[i] : i \in DOMAIN extraArgs}
  IN  [k \in DOMAIN eg \cup gk \cup ak |->
         IF k \in ak THEN Null
         ELSE IF k \in gk THEN globals[2][k[1]]
         ELSE eg[k]]

RECURSIVE LastNewline(_, _)
LastNewline(s, i) ==
  IF i = 0 THEN 0 ELSE IF s[i] = "\n" THEN i ELSE LastNewline(s, i - 1)

\* a faulty addReturn: the last line is left without its return
addReturnMissing(s) == s

\* lines[lines.length - 1] = 'return ' + lines[lines.length - 1]
addReturn(s) ==
  LET i == LastNewline(s, Len(s))
  IN  SubSeq(s, 1, i) \o <<"return ">> \o SubSeq(s, i + 1, Len(s))

\* whether the last statement of a body returns its value
hasReturn(s) ==
  LET i == LastNewline(s, Len(s)) IN i < Len(s) /\ s[i + 1] = "return "

\* the parameter names Function reads in one parameter string
RECURSIVE SplitParams(_, _)
SplitParams(s, cur) ==
  IF s = <<>> THEN <<cur>>
  ELSE IF Head(s) = "," THEN <<cur>> \o SplitParams(Tail(s), <<>>)
  ELSE SplitParams(Tail(s), Append(cur, Head(s)))

\* Function.apply(null, args): a function object when the parameter strings
\* and the body are valid JavaScript.  The literals of the body are those
\* putInStrings wrote into it.
NewFunction(extraArgs, text, sem, lits) ==
  LET ps == IF extraArgs = <<>> THEN <<>> ELSE SplitParams(join(extraArgs), <<>>)
  IN  [ok |-> /\ sem.ok
              /\ \A i \in 1..Len(ps) : Len(ps[i]) = 1 /\ IsIdent(ps[i][1]),
       params |-> <<"_globals_", "_formatters_">>
                    \o [i \in 1..Len(ps) |-> IF ps[i] = <<>> THEN "" ELSE ps[i][1]],
       ret |-> hasReturn(text),
       sem |-> [sem EXCEPT !.ops =
                  [i \in 1..Len(sem.ops) |->
                     IF sem.ops[i].op = "lit"
                     THEN Op("lit", IF lits = <<>> THEN <<"undefined">> ELSE lits[1])
                     ELSE sem.ops[i]]]]

\* func.apply(thisv, argv): the parameters are bound in order, a missing one
\* is undefined, and a body without return returns undefined
Completion(func, r) ==
  IF r.tag = "return" /\ ~func.ret THEN Return(Undefined, r.this) ELSE r

apply(func, thisv, argv) ==
  LET bound == {i \in 1..Len(func.params) : i <= Len(argv)}
      env == [this |-> thisv,
              args |-> [n \in {func.params[i] : i \in 1..Len(func.params)} |->
                          LET is == {i \in bound : func.params[i] = n}
                          IN  IF is = {} THEN Undefined
                              ELSE argv[CHOOSE i \in is : \A j \in is : j <= i]]]
  IN  Completion(func, EvalBody(func.sem, env))

\* a faulty bindArguments: formatters bound before globals
bindArgumentsSwapped(func, globals, formatters) ==
  [id |-> 0, func |-> func, args |-> <<formatters, globals>>, expr |-> <<>>]

\* bindArguments: var args = slice.call(arguments, 1); return binder
bindArguments(func, globals, formatters) ==
  [id |-> 0, func |-> func, args |-> <<globals, formatters>>, expr |-> <<>>]

\* a faulty binder: whatever the function throws is caught and dropped
binderCaught(b, thisv, argv) ==
  LET r == apply(b.func, thisv, b.args \o argv)
  IN  IF r.tag = "throw" THEN Return(Undefined, r.this) ELSE r

\* a faulty binder: func.apply(undefined, ...), the context of the call lost
binderUnbound(b, thisv, argv) == apply(b.func, Undefined, b.args \o argv)

\* binder: return func.apply(this, args.concat(slice.call(arguments)))
binder(b, thisv, argv) == apply(b.func, thisv, b.args \o argv)

BadExpression(original, text) ==
  Error("Error", <<"Bad expression: ">> \o original \o <<"\n", "Compiled expression:\n">>
                   \o text \o <<"\n", "SyntaxError">>)

\* compileExpression
compileExpression(original, text, sem, lits, globals, formatters, extraArgs) ==
  LET func == NewFunction(extraArgs, text, sem, lits)
  IN  IF ~func.ok
      THEN [ok |-> FALSE, err |-> BadExpression(original, text), func |-> NoFunc]
      ELSE [ok |-> TRUE, err |-> NoError,
            func |-> bindArguments(func, globals, formatters)]

\* what a call of an entry point leaves behind and gives back
Outcome(st, ok, err, func, key, hit) ==
  [strings |-> st.strings, cache |-> st.cache, valueProperty |-> st.valueProperty,
   nextId |-> st.nextId, ok |-> ok, err |-> err, func |-> func, key |-> key,
   hit |-> hit]

\* cache[cacheKey] = func
cachePut(c, key, func) ==
  [k \in DOMAIN c \cup {key} |-> IF k = key THEN func ELSE c[k]]

\* if (!isSetter) { ... lines[lines.length - 1] = 'return ' + ... }
returned(isSetter, text) == IF ~isSetter THEN addReturn(text) ELSE text

\* func.expr = expr; cache[cacheKey] = func; return func
cached(st, key, func) ==
  Outcome([st EXCEPT !.cache = cachePut(st.cache, key, func),
                     !.nextId = st.nextId + 1],
          TRUE, NoError, func, key, FALSE)

\* after compileExpression: its error thrown, or the function kept
compiled(st, key, expr, c) ==
  IF ~c.ok THEN Outcome(st, FALSE, c.err, NoFunc, key, FALSE)
  ELSE cached(st, key, [c.func EXCEPT !.id = st.nextId, !.expr = expr])

\* after putInStrings: the text put is compiled
restored(st, original, key, globals, formatters, extraArgs, lits, sem, put) ==
  compiled([st EXCEPT !.strings = put.strings], key, put.out,
           compileExpression(original, put.out, sem, lits, globals, formatters,
                             extraArgs))

\* after pullOutStrings: the two transform stages, the return, putInStrings
transformed(st, original, key, isSetter, globals, formatters, extraArgs, pulled, variables) ==
  IF ~pulled.ok
  THEN Outcome(st, FALSE, Error("Error", <<pulled.err>>), NoFunc, key, FALSE)
  ELSE restored(st, original, key, globals, formatters, extraArgs,
                pulled.strings.list, Transform(pulled.out, variables),
                putInStrings(pulled.strings,
                             returned(isSetter, TransformText(pulled.out, variables))))

\* parse, from pullOutStrings to the end: the same lines in both revisions
pipeline(st, original, text, key, isSetter, globals, formatters, extraArgs) ==
  transformed(st, original, key, isSetter, globals, formatters, extraArgs,
              pullOutStrings(st.strings, text),
              getVariables(st.expGlobals, globals, extraArgs))

\* exports.parse(expr, globals, formatters, ...extraArgs), lines 11-39
parseVariadic(st, expr, globals, formatters, extraArgs) ==
  LET key == cacheKey(expr.text, extraArgs)
      isSetter == extraArgs # <<>> /\ extraArgs[1] = st.valueProperty
  IN  IF ~expr.str
      THEN Outcome(st, FALSE, Error("TypeError", <<"Invalid expr, must be type String">>),
                   NoFunc, key, FALSE)
      ELSE IF key \in DOMAIN st.cache
      THEN Outcome(st, TRUE, NoError, st.cache[key], key, TRUE)
      ELSE pipeline(st, expr.text, expr.text, key, isSetter, globals, formatters,
                    extraArgs)

\* exports.parse(expr, globals, formatters, extraArgs), lines 113-143
parseArray(st, expr, globals, formatters, extraArgs) ==
  LET key == cacheKey(expr.text, extraArgs)
      isSetter == extraArgs # <<>> /\ extraArgs[1] = st.valueProperty
      bang == isSetter /\ expr.text # <<>> /\ expr.text[1] = "!"
      st1 == IF bang THEN [st EXCEPT !.valueProperty = <<"!">> \o @] ELSE st
      text == IF bang THEN Tail(expr.text) ELSE expr.text
  IN  IF key \in DOMAIN st.cache
      THEN Outcome(st, TRUE, NoError, st.cache[key], key, TRUE)
      ELSE IF ~expr.str /\ isSetter
      THEN Outcome(st, FALSE, Error("TypeError", <<"expr.charAt is not a function">>),
                   NoFunc, key, FALSE)
      ELSE IF ~expr.str
      THEN LET pulled == pullOutStrings(st.strings, <<>>)
           IN  IF ~pulled.ok
               THEN Outcome(st, FALSE, Error("Error", <<pulled.err>>), NoFunc, key, FALSE)
               ELSE Outcome([st EXCEPT !.strings = pulled.strings], FALSE,
                            Error("TypeError", <<"expr.replace is not a function">>),
                            NoFunc, key, FALSE)
      ELSE pipeline(st1, expr.text, text, key, isSetter, globals, formatters,
                    extraArgs)

parse(st, expr, globals, formatters, extraArgs) ==
  IF st.rev = "variadic"
  THEN parseVariadic(st, expr, globals, formatters, extraArgs)
  ELSE parseArray(st, expr, globals, formatters, extraArgs)

RECURSIVE FirstBar(_, _)
FirstBar(s, i) ==
  IF i > Len(s) THEN 0 ELSE IF s[i] = "|" THEN i ELSE FirstBar(s, i + 1)

RECURSIVE SpaceRunStart(_, _)
SpaceRunStart(s, i) ==
  IF i > 1 /\ s[i - 1] \in {" ", "\n"} THEN SpaceRunStart(s, i - 1) ELSE i

\* expr.replace(/(\s*\||$)/, ins + '$1')
setterReplace(s, ins) ==
  LET b == FirstBar(s, 1)
      j == SpaceRunStart(s, b)
  IN  IF b = 0 THEN s \o ins
      ELSE SubSeq(s, 1, j - 1) \o ins \o SubSeq(s, j, Len(s))

\* exports.parseSetter(expr, globals, formatters, ...extraArgs), lines 42-54
parseSetterVariadic(st, expr, globals, formatters, extraArgs) ==
  IF ~expr.str
  THEN Outcome(st, FALSE, Error("TypeError", <<"expr.charAt is not a function">>),
               NoFunc, <<>>, FALSE)
  ELSE LET text == IF expr.text # <<>> /\ expr.text[1] = "!"
                   THEN setterReplace(Tail(expr.text), AsgNotValue)
                   ELSE setterReplace(expr.text, AsgValue)
       IN  parseVariadic(st, Str(text), globals, formatters,
                         <<st.valueProperty>> \o extraArgs)

\* exports.parseSetter(expr, globals, formatters, extraArgs), lines 146-154;
\* extraArgs.unshift(valueProperty) has already changed the array when
\* expr.replace is reached
parseSetterArray(st, expr, globals, formatters, extraArgs) ==
  IF ~expr.str
  THEN Outcome(st, FALSE, Error("TypeError", <<"expr.replace is not a function">>),
               NoFunc, <<>>, FALSE)
  ELSE parseArray(st, Str(setterReplace(expr.text, AsgValue)), globals, formatters,
                  <<st.valueProperty>> \o extraArgs)

\* a faulty parseSetter: valueProperty is not put in front of the names
parseSetterNoValue(st, expr, globals, formatters, extraArgs) ==
  parse(st, Str(setterReplace(expr.text, AsgValue)), globals, formatters, extraArgs)

parseSetter(st, expr, globals, formatters, extraArgs) ==
  IF st.rev = "variadic"
  THEN parseSetterVariadic(st, expr, globals, formatters, extraArgs)
  ELSE parseSetterArray(st, expr, globals, formatters, extraArgs)

(***************************************************************************)
(* The literal isolator driven directly, as the tests of strings.js do     *)
(***************************************************************************)
LitChars == {SQ, DQ, SL, BS, SOH, "a"}

LitTexts == UNION {[1..n -> LitChars] : n \in 0..MaxLen}

\* texts handed to putInStrings that are not what pullOutStrings returned
OtherTexts == {<<>>, <<"a">>, <<DQ, DQ>>, <<SQ, SQ, "a", SL, SL>>}

NoRes == [op |-> "none", ok |-> TRUE, err |-> "", arg |-> <<>>, out |-> <<>>]

NoReq == [op |-> "none"]

\* nothing returned, nothing created, nothing thrown yet
NoHist == [calls |-> 0, first |-> <<>>, made |-> <<>>, bad |-> <<>>]

NoLit == [orig |-> <<>>, out |-> <<>>, done |-> FALSE]

\* the expression under test is drawn once; nothing is isolated yet
InitStrings ==
  /\ rev = "variadic"
  /\ strings = NoStrings
  /\ cache = <<>>
  /\ valueProperty = <<"_value_">>
  /\ expGlobals = <<>>
  /\ callerArgs = <<>>
  /\ nextId = 1
  /\ \E e \in LitTexts : lit = [orig |-> e, out |-> <<>>, done |-> FALSE]
  /\ req = NoReq
  /\ res = NoRes
  /\ hist = NoHist

\* strings.pullOutStrings(lit.orig)
PullOut ==
  LET r == pullOutStrings(strings, lit.orig)
  IN  /\ strings' = r.strings
      /\ lit' = IF r.ok THEN [lit EXCEPT !.out = r.out, !.done = TRUE] ELSE lit
      /\ res' = [op |-> "pullOutStrings", ok |-> r.ok, err |-> r.err,
                 arg |-> lit.orig, out |-> r.out]
      /\ UNCHANGED <<rev, cache, valueProperty, expGlobals, callerArgs, nextId, req,
                     hist>>

\* strings.putInStrings(t)
PutIn(t) ==
  LET r == putInStrings(strings, t)
  IN  /\ strings' = r.strings
      /\ lit' = lit
      /\ res' = [op |-> "putInStrings", ok |-> r.ok, err |-> r.err,
                 arg |-> t, out |-> r.out]
      /\ UNCHANGED <<rev, cache, valueProperty, expGlobals, callerArgs, nextId, req,
                     hist>>

\* restore what isolate returned, unmodified
PutInSame == lit.done /\ PutIn(lit.out)

PutInOther == \E t \in OtherTexts : PutIn(t)

NextStrings == PullOut \/ PutInSame \/ PutInOther

SpecStrings == InitStrings /\ [][NextStrings]_vars

(***************************************************************************)
(* Property chains compiled and invoked                                    *)
(*                                                                         *)
(* One chain a{.b|()} is compiled by parse or by parseSetter in a freshly  *)
(* loaded module, and the callable is invoked on binding contexts whose    *)
(* links are undefined, null, a primitive, an object, or a function that   *)
(* returns a value, returns a property of its this, or throws.             *)
(***************************************************************************)
Revs == {"variadic", "array"}

Fresh(r) == [rev |-> r, strings |-> NoStrings, cache |-> <<>>,
             valueProperty |-> <<"_value_">>, expGlobals |-> <<>>, nextId |-> 1]

\* the link sequences of at most n links over .b and ()
RECURSIVE LinkTexts(_)
LinkTexts(n) ==
  IF n = 0 THEN {<<>>}
  ELSE LinkTexts(n - 1)
         \cup {t \o <<".", "b">> : t \in LinkTexts(n - 1)}
         \cup {t \o <<"(", ")">> : t \in LinkTexts(n - 1)}

ChainTexts == {<<"a">> \o t : t \in LinkTexts(MaxLinks)}

\* the values a link can hold, nested at most d deep
RECURSIVE Vals(_)
Vals(d) ==
  IF d = 0 THEN {Undefined, Null, Prim("p"), Fn("throw", "e1")}
  ELSE Vals(0) \cup {Obj(<<>>)}
         \cup {Obj([b |-> v]) : v \in Vals(d - 1)}
         \cup {Fn("ret", v) : v \in Vals(d - 1)}

ChainCtxs ==
  {Obj(<<>>)} \cup {Obj([a |-> v]) : v \in Vals(MaxLinks)}
    \cup {Obj([a |-> Fn("retthis", "b"), b |-> v]) : v \in Vals(MaxLinks - 1)}

ChainArgvs == {<<>>, <<Prim("v")>>, <<Null>>}

\* the module state after the call that compiled the request
Compiled(q) ==
  IF q.op = "parse"
  THEN parse(Fresh(q.rev), Str(q.text), q.globals, q.formatters, q.names)
  ELSE parseSetter(Fresh(q.rev), Str(q.text), q.globals, q.formatters, q.names)

IsBadExpression(err) ==
  err.name = "Error" /\ err.message # <<>> /\ err.message[1] = "Bad expression: "

\* The history after a compile call of request q with outcome out, made
\* while the default globals held the names gk: the number of calls, the
\* callable each request
\* was given first, for each function object the request and the default
\* globals it was created under, and for each cache key the first
\* "Bad expression" error thrown for it.
Record(h, q, out, gk) ==
  [calls |-> h.calls + 1,
   first |-> IF out.ok /\ q \notin DOMAIN h.first
             THEN [r \in DOMAIN h.first \cup {q} |->
                     IF r = q THEN out.func.id ELSE h.first[r]]
             ELSE h.first,
   made |-> IF out.ok /\ ~out.hit
            THEN Append(h.made, [q |-> q, globals |-> gk])
            ELSE h.made,
   bad |-> IF ~out.ok /\ IsBadExpression(out.err) /\ out.key \notin DOMAIN h.bad
           THEN [k \in DOMAIN h.bad \cup {out.key} |->
                   IF k = out.key THEN out.err ELSE h.bad[k]]
           ELSE h.bad]

\* the caller's array of names as the call leaves it: parseSetter of the
\* array revision puts valueProperty in front of it
unshift(st, op, names) ==
  IF st.rev = "array" /\ op = "parseSetter"
  THEN <<st.valueProperty>> \o names ELSE names

InitOf(q) ==
  \E c \in {Compiled(q)} :
  /\ rev = q.rev
  /\ strings = c.strings
  /\ cache = c.cache
  /\ valueProperty = c.valueProperty
  /\ expGlobals = <<>>
  /\ callerArgs = unshift(Fresh(q.rev), q.op, q.names)
  /\ nextId = c.nextId
  /\ lit = NoLit
  /\ req = [q EXCEPT !.ok = c.ok, !.func = c.func]
  /\ res = NoRes
  /\ hist = Record(NoHist, [op |-> q.op, str |-> TRUE, text |-> q.text,
                            names |-> q.names], c, {})

Request(r, op, text, globals, formatters, names) ==
  [rev |-> r, op |-> op, text |-> text, globals |-> globals,
   formatters |-> formatters, names |-> names, ok |-> FALSE, func |-> NoFunc]

InitChain ==
  \E r \in Revs, op \in {"parse", "parseSetter"}, t \in ChainTexts :
    InitOf(Request(r, op, t, Undefined, Undefined, <<>>))

\* callable.call(ctx, ...argv), the one invocation a behaviour looks at
Invoke(ctx, argv) ==
  /\ req.ok
  /\ res.op = "none"
  /\ res' = [op |-> "invoke", this |-> ctx, argv |-> argv,
             r |-> binder(req.func, ctx, argv)]
  /\ UNCHANGED <<rev, strings, cache, valueProperty, expGlobals, callerArgs,
                 nextId, lit, req, hist>>

NextChain == \E ctx \in ChainCtxs, argv \in ChainArgvs : Invoke(ctx, argv)

SpecChain == InitChain /\ [][NextChain]_vars

(***************************************************************************)
(* Formatters, globals and extra arguments compiled and invoked            *)
(*                                                                         *)
(* One expression is compiled in a freshly loaded module with a globals    *)
(* object, a formatters object and a list of extra-argument names, and the *)
(* callable is invoked on binding contexts with positional arguments.  A   *)
(* function of kind "sym" returns a record of its own name, its this and   *)
(* its arguments, so what a formatter was called with is read off the      *)
(* result.                                                                 *)
(***************************************************************************)
Bar == <<" ", "|", " ">>

GetterTexts ==
  { <<"a">> \o Bar \o <<"f">>,
    <<"a">> \o Bar \o <<"f">> \o Bar \o <<"g">>,
    <<"a">> \o Bar \o <<"f", "(", "x", ")">> \o Bar
            \o <<"g", "(", "x", ",", " ", "y", ")">>,
    <<"a", "(", ")">> \o Bar \o <<"f">>,
    <<"m", "(", ")">>,
    <<"m">> \o Bar \o <<"f">>,
    <<"x">>,
    <<"y">> }

SetterTexts ==
  { <<"a">>,
    <<"a">> \o Bar \o <<"f", "(", "x", ")">>,
    <<"a", ".", "b">> \o Bar \o <<"f">> \o Bar \o <<"g">>,
    <<"a", "(", ")", ".", "b">> }

NameLists == {<<>>, <<<<"x">>>>, <<<<"x">>, <<"y">>>>}

FormatterObjs ==
  { Undefined,
    Obj([g |-> Fn("sym", "g")]),
    Obj([f |-> Fn("sym", "f"), g |-> Fn("sym", "g")]),
    Obj([f |-> Fn("throw", "e2"), g |-> Fn("throw", "e4")]) }

GlobalObjs ==
  { Undefined,
    Obj([m |-> Fn("throw", "e3")]),
    Obj([m |-> Fn("retthis", "m")]) }

BindCtxs ==
  { Obj(<<>>),
    Obj([a |-> Prim("p"), x |-> Prim("cx")]),
    Obj([a |-> Obj([b |-> Prim("p")])]),
    Obj([a |-> Fn("throw", "e1")]),
    Obj([a |-> Fn("retthis", "b"), b |-> Obj(<<>>)]) }

ArgVals == {Prim("v"), Prim("w")}

BindArgvs == UNION {[1..n -> ArgVals] : n \in 0..MaxArgs}

InitBind ==
  \E r \in Revs, names \in NameLists, F \in FormatterObjs, G \in GlobalObjs :
    \/ \E t \in GetterTexts : InitOf(Request(r, "parse", t, G, F, names))
    \/ \E t \in SetterTexts : InitOf(Request(r, "parseSetter", t, G, F, names))

NextBind == \E ctx \in BindCtxs, argv \in BindArgvs : Invoke(ctx, argv)

SpecBind == InitBind /\ [][NextBind]_vars

(***************************************************************************)
(* The module in use: compile calls in any order, and additions to the     *)
(* default globals                                                         *)
(***************************************************************************)
\* the module state the entry points read and write
Cur == [rev |-> rev, strings |-> strings, cache |-> cache,
        valueProperty |-> valueProperty, expGlobals |-> expGlobals,
        nextId |-> nextId]

CompileReq(op, str, text, names) ==
  [op |-> op, str |-> str, text |-> text, names |-> names]

\* parse('x'), parse('x', .., 'x,y'), parse('x', .., 'x', 'y'), parse('a b')
\* and parse of a value that is not a string
ParseReqs ==
  { CompileReq("parse", TRUE, <<"x">>, <<>>),
    CompileReq("parse", TRUE, <<"x">>, <<<<"x", ",", "y">>>>),
    CompileReq("parse", TRUE, <<"x">>, <<<<"x">>, <<"y">>>>),
    CompileReq("parse", TRUE, <<"a", " ", "b">>, <<>>),
    CompileReq("parse", FALSE, <<"42">>, <<>>) }

\* parseSetter('x') and parseSetter('!x')
SetterReqs ==
  { CompileReq("parseSetter", TRUE, <<"x">>, <<>>),
    CompileReq("parseSetter", TRUE, <<"!", "x">>, <<>>) }

Init ==
  /\ rev \in Revs
  /\ strings = NoStrings
  /\ cache = <<>>
  /\ valueProperty = <<"_value_">>
  /\ expGlobals = <<>>
  /\ callerArgs = <<>>
  /\ nextId = 1
  /\ lit = NoLit
  /\ req = NoReq
  /\ res = NoRes
  /\ hist = NoHist

\* one call of an entry point, from the caller's side
Call(q) ==
  \E out \in {IF q.op = "parse"
               THEN parse(Cur, [str |-> q.str, text |-> q.text], Undefined,
                          Undefined, q.names)
               ELSE parseSetter(Cur, [str |-> q.str, text |-> q.text], Undefined,
                                Undefined, q.names)} :
      /\ hist.calls < MaxCalls
      /\ strings' = out.strings
      /\ cache' = out.cache
      /\ valueProperty' = out.valueProperty
      /\ nextId' = out.nextId
      /\ callerArgs' = unshift(Cur, q.op, q.names)
      /\ res' = [op |-> q.op, q |-> q, ok |-> out.ok, err |-> out.err,
                 id |-> out.func.id, key |-> out.key, hit |-> out.hit]
      /\ hist' = Record(hist, q, out, DOMAIN expGlobals)
      /\ UNCHANGED <<rev, expGlobals, lit, req>>

Parse == \E q \in ParseReqs : Call(q)

ParseSetter == \E q \in SetterReqs : Call(q)

\* expressions.globals.x = <a value of the host>
AddGlobal ==
  /\ <<"x">> \notin DOMAIN expGlobals
  /\ expGlobals' = [k \in DOMAIN expGlobals \cup {<<"x">>} |-> <<"host", "x">>]
  /\ res' = [op |-> "addGlobal", ok |-> TRUE]
  /\ UNCHANGED <<rev, strings, cache, valueProperty, callerArgs, nextId, lit, req,
                 hist>>

Next == Parse \/ ParseSetter \/ AddGlobal

Spec == Init /\ [][Next]_vars

(***************************************************************************)
(* What a chain means, link by link, on a binding context: the reference   *)
(* the claims about compiled chains are stated against.  Walk reads the    *)
(* links from v: "broken" when a property is read from null or undefined   *)
(* or a value that is not a function is called, "throw" when a called      *)
(* function throws, else "value".  loc says where in the context v lies.   *)
(***************************************************************************)
Detached == [in |-> FALSE, path |-> <<>>]

RECURSIVE Walk(_, _, _, _, _)
Walk(v, loc, recv, rloc, links) ==
  IF links = <<>> THEN [tag |-> "value", val |-> v, loc |-> loc]
  ELSE IF Head(links).k = "prop"
  THEN IF IsNullish(v) THEN [tag |-> "broken", val |-> Undefined, loc |-> Detached]
       ELSE Walk(GetProp(v, Head(links).n),
                 [in |-> loc.in /\ IsObject(v), path |-> Append(loc.path, Head(links).n)],
                 v, loc, Tail(links))
  ELSE IF ~IsFunction(v) THEN [tag |-> "broken", val |-> Undefined, loc |-> Detached]
  ELSE LET r == CallFn(v, recv, <<>>) IN
       IF r.tag = "throw" THEN [tag |-> "throw", val |-> r.val, loc |-> Detached]
       ELSE Walk(r.val,
                 IF v[2] = "retthis"
                 THEN [in |-> rloc.in, path |-> Append(rloc.path, v[3])]
                 ELSE Detached,
                 Undefined, Detached, Tail(links))

\* the links of the chain of the request, the root read from the context first
ReqLinks == <<[k |-> "prop", n |-> req.text[1]]>> \o ParseLinks(req.text, 2, <<>>).links

Here == [in |-> TRUE, path |-> <<>>]

\* the chain read on context ctx
WalkGet(ctx) == Walk(ctx, Here, Undefined, Detached, ReqLinks)

\* the value that holds the final link of the chain on context ctx
WalkHolder(ctx) ==
  LET w == Walk(ctx, Here, Undefined, Detached, SubSeq(ReqLinks, 1, Len(ReqLinks) - 1))
  IN  IF w.tag = "value" /\ IsNullish(w.val)
      THEN [tag |-> "broken", val |-> Undefined, loc |-> Detached]
      ELSE w

FinalLink == ReqLinks[Len(ReqLinks)]

InvokedGetter == req.op = "parse" /\ res.op = "invoke"

InvokedSetter ==
  /\ req.op = "parseSetter" /\ res.op = "invoke"
  /\ FinalLink.k = "prop"

\* the value passed to a setter (undefined when none is passed)
Passed == IF res.argv = <<>> THEN Undefined ELSE res.argv[1]

(***************************************************************************)
(* C1: getter null-safety.  Invoking the callable parse returns for a      *)
(* chain returns undefined, without throwing, when an intermediate link is *)
(* null or undefined or a called link is not a function; it returns the    *)
(* terminal value when every link is present; and it throws only what a    *)
(* called function of the context throws.                                  *)
(***************************************************************************)
C1_GetterNullSafe ==
  InvokedGetter =>
    LET w == WalkGet(res.this) IN
    /\ w.tag = "broken" => res.r.tag = "return" /\ res.r.val = Undefined
    /\ w.tag = "value" => res.r.tag = "return" /\ res.r.val = w.val
    /\ res.r.tag = "throw" => w.tag = "throw"

\* a.b() invoked where a.b is not a function
C1_Witness ==
  /\ InvokedGetter
  /\ req.text = <<"a", ".", "b", "(", ")">>
  /\ res.this = Obj([a |-> Obj([b |-> Prim("p")])])
  /\ res.r.tag = "return" /\ res.r.val = Undefined

(***************************************************************************)
(* C2 as stated: a failing guard makes the setter a no-op that does not    *)
(* throw, and when every guard passes the final link holds the supplied    *)
(* value afterwards.  (Stated for holders that lie in the binding context, *)
(* where the final link can be read back; functions carry no properties    *)
(* here, so a function as holder is left out.)                             *)
(***************************************************************************)
C2_AsStated ==
  InvokedSetter =>
    LET h == WalkHolder(res.this) IN
    /\ h.tag = "broken" => res.r.tag = "return" /\ res.r.this = res.this
    /\ (h.tag = "value" /\ h.loc.in /\ ~IsFunction(h.val)) =>
         /\ res.r.tag = "return"
         /\ Walk(res.r.this, Here, Undefined, Detached, ReqLinks).val = Passed

(***************************************************************************)
(* C2, amended: a failing guard makes the setter a no-op that does not     *)
(* throw.  When every guard passes and the value holding the final link is *)
(* an object of the binding context, the context afterwards differs from   *)
(* the one before in exactly that link, which holds the supplied value.    *)
(* When every guard passes and that value is a primitive, or an object     *)
(* that is not part of the context, the context is unchanged and nothing   *)
(* is thrown.  (Functions carry no properties here, so a function as       *)
(* holder is left out.)                                                    *)
(***************************************************************************)
C2_SetterGuards ==
  InvokedSetter =>
    LET h == WalkHolder(res.this) IN
    /\ h.tag = "broken" => res.r.tag = "return" /\ res.r.this = res.this
    /\ (h.tag = "value" /\ h.loc.in /\ IsObject(h.val)) =>
         /\ res.r.tag = "return"
         /\ res.r.this = SetAt(res.this, h.loc.path, FinalLink.n, Passed)
    /\ (h.tag = "value" /\ ~IsFunction(h.val) /\ ~(h.loc.in /\ IsObject(h.val))) =>
         res.r.tag = "return" /\ res.r.this = res.this
    /\ res.r.tag = "throw" => h.tag = "throw"

\* a().b set where a() returns the object this.b: this.b.b is assigned
C2_Witness ==
  /\ InvokedSetter
  /\ req.text = <<"a", "(", ")", ".", "b">>
  /\ res.this = Obj([a |-> Fn("retthis", "b"), b |-> Obj(<<>>)])
  /\ res.argv = <<Prim("v")>>
  /\ res.r.this = Obj([a |-> Fn("retthis", "b"), b |-> Obj([b |-> Prim("v")])])

IsCompile == res.op \in {"parse", "parseSetter"}

\* the (expression text, extra-argument names) pair parse is asked for: for
\* parseSetter the assignment text and the names behind _value_
Pair(q) ==
  IF q.op = "parse" THEN <<q.text, q.names>>
  ELSE <<setterReplace(q.text, AsgValue), <<<<"_value_">>>> \o q.names>>

(***************************************************************************)
(* C4: cache identity.  Once a compile request (entry point, expression    *)
(* text, extra-argument names) has returned a callable, every later call   *)
(* with the same request returns that same function object, whatever calls *)
(* came in between; and every function object a compile call created is    *)
(* still the entry of the cache.                                           *)
(***************************************************************************)
C4_CacheIdentity ==
  /\ (IsCompile /\ res.q \in DOMAIN hist.first) =>
       res.ok /\ res.id = hist.first[res.q]
  /\ \A i \in DOMAIN hist.made : \E k \in DOMAIN cache : cache[k].id = i

(***************************************************************************)
(* C5: cache keys never collide.  Two compile requests whose (expression   *)
(* text, extra-argument names) pairs differ were never given the same      *)
(* function object; parseSetter(e) in particular is never given the one    *)
(* parse(e) is given.                                                      *)
(***************************************************************************)
C5_KeysNeverCollide ==
  \A q1 \in DOMAIN hist.first : \A q2 \in DOMAIN hist.first :
    Pair(q1) # Pair(q2) => hist.first[q1] # hist.first[q2]

(***************************************************************************)
(* What an expression with formatters, globals and extra arguments means   *)
(* on a binding context and positional arguments: the reference for the    *)
(* claims about invocation.                                                *)
(***************************************************************************)
\* what the text of the request reads: root, links, formatters
ReqParsed == ParseText(req.text)

\* the names the positional arguments are bound to, in order
ReqNames ==
  (IF req.op = "parseSetter" THEN <<<<"_value_">>>> ELSE <<>>) \o req.names

IsName(n) == \E i \in DOMAIN ReqNames : ReqNames[i] = <<n>>

IsGlobal(n) ==
  /\ ~IsName(n)
  /\ IsObject(req.globals)
  /\ n \in DOMAIN req.globals[2]
  /\ req.globals[2][n] # Null

\* the positional argument bound to name n, undefined when none was passed
ArgOf(n, argv) ==
  LET i == CHOOSE j \in DOMAIN ReqNames : ReqNames[j] = <<n>>
  IN  IF i <= Len(argv) THEN argv[i] ELSE Undefined

\* an identifier read: an extra argument, else a global, else a property of
\* the binding context
RefIdent(n, ctx, argv) ==
  IF IsName(n) THEN ArgOf(n, argv)
  ELSE IF IsGlobal(n) THEN GetProp(req.globals, n)
  ELSE GetProp(ctx, n)

\* the chain of the request read
RefChain(ctx, argv) ==
  LET p == ReqParsed
      links == <<[k |-> "prop", n |-> p.root]>> \o p.links
  IN  IF IsName(p.root)
      THEN Walk(ArgOf(p.root, argv), Detached, Undefined, Detached, p.links)
      ELSE IF IsGlobal(p.root)
      THEN Walk(req.globals, Detached, Undefined, Detached, links)
      ELSE Walk(ctx, Here, Undefined, Detached, links)

\* the value that holds the final link of the target of the request
RefHolder(ctx) ==
  LET p == ReqParsed
      links == <<[k |-> "prop", n |-> p.root]>> \o p.links
      w == Walk(ctx, Here, Undefined, Detached, SubSeq(links, 1, Len(links) - 1))
  IN  IF w.tag = "value" /\ IsNullish(w.val)
      THEN [tag |-> "broken", val |-> Undefined, loc |-> Detached]
      ELSE w

RefFinal == IF ReqParsed.links = <<>> THEN ReqParsed.root
            ELSE ReqParsed.links[Len(ReqParsed.links)].n

\* formatter k of the request as the formatters object of the request holds it
FmtOf(k) == GetProp(req.formatters, ReqParsed.fmts[k].name)

AllFunctions == \A k \in DOMAIN ReqParsed.fmts : IsFunction(FmtOf(k))

AllSym == \A k \in DOMAIN ReqParsed.fmts : IsFunction(FmtOf(k)) /\ FmtOf(k)[2] = "sym"

\* fk(... f1(v, args1) ..., argsk), written down as the record a "sym"
\* function returns: its name, its this, its arguments
RECURSIVE RefPipe(_, _, _, _)
RefPipe(k, v, ctx, argv) ==
  IF k = 0 THEN v
  ELSE LET f == ReqParsed.fmts[k] IN
       <<"app", f.name, ctx,
         <<RefPipe(k - 1, v, ctx, argv)>>
           \o [j \in 1..Len(f.args) |-> RefIdent(f.args[j], ctx, argv)]
           \o (IF req.op = "parseSetter" THEN <<True>> ELSE <<>>)>>

\* the first formatter, left to right, that throws
FirstThrowing ==
  LET T == {k \in DOMAIN ReqParsed.fmts : FmtOf(k)[2] = "throw"}
  IN  IF T = {} THEN 0 ELSE CHOOSE k \in T : \A j \in T : k <= j

UserErrors == {"e1", "e2", "e3", "e4"}

(***************************************************************************)
(* C3: run-time user errors are never suppressed.  When a method of the    *)
(* context, a function of the globals or a formatter that the invocation   *)
(* calls throws, the invocation throws that same exception; an invocation  *)
(* throws nothing else (no error of the core's own), and a null or         *)
(* undefined intermediate or a non-function call target gives undefined or *)
(* a no-op, not an exception.                                              *)
(***************************************************************************)
C3_UserErrorsPropagate ==
  res.op = "invoke" =>
    /\ res.r.tag = "throw" => res.r.val \in UserErrors
    /\ (req.op = "parse" /\ AllFunctions) =>
         LET w == RefChain(res.this, res.argv) IN
         /\ w.tag = "throw" => res.r.tag = "throw" /\ res.r.val = w.val
         /\ (w.tag # "throw" /\ FirstThrowing # 0) =>
              res.r.tag = "throw" /\ res.r.val = FmtOf(FirstThrowing)[3]
         /\ (w.tag # "throw" /\ FirstThrowing = 0) => res.r.tag = "return"
    /\ (req.op = "parseSetter" /\ AllFunctions) =>
         LET h == RefHolder(res.this) IN
         /\ h.tag = "throw" => res.r.tag = "throw" /\ res.r.val = h.val
         /\ h.tag = "broken" => res.r.tag = "return" /\ res.r.this = res.this
         /\ (h.tag = "value" /\ FirstThrowing # 0) =>
              /\ res.r.tag = "throw" /\ res.r.val = FmtOf(FirstThrowing)[3]
              /\ res.r.this = res.this
         /\ (h.tag = "value" /\ FirstThrowing = 0) => res.r.tag = "return"

\* a | f | g where f throws e2 and g would throw e4
C3_Witness ==
  /\ res.op = "invoke" /\ req.op = "parse"
  /\ req.text = <<"a">> \o Bar \o <<"f">> \o Bar \o <<"g">>
  /\ req.formatters = Obj([f |-> Fn("throw", "e2"), g |-> Fn("throw", "e4")])
  /\ res.this = Obj([a |-> Prim("p"), x |-> Prim("cx")])
  /\ res.r.tag = "throw" /\ res.r.val = "e2"

(***************************************************************************)
(* C6: formatter pipes compose left to right.  The getter compiled from    *)
(* v | f1(args1) | ... | fn(argsn) returns                                 *)
(* fn(... f2(f1(value of v, args1), args2) ..., argsn): each formatter is  *)
(* called with the preceding result first and then its own arguments in    *)
(* the order written.                                                      *)
(***************************************************************************)
C6_PipesLeftToRight ==
  (res.op = "invoke" /\ req.op = "parse" /\ ReqParsed.fmts # <<>> /\ AllSym) =>
    LET w == RefChain(res.this, res.argv) IN
    w.tag # "throw" =>
      /\ res.r.tag = "return"
      /\ res.r.val = RefPipe(Len(ReqParsed.fmts), w.val, res.this, res.argv)

\* a | f(x) | g(x, y) with x and y extra arguments bound to v and w
C6_Witness ==
  /\ res.op = "invoke" /\ req.op = "parse"
  /\ req.text = <<"a">> \o Bar \o <<"f", "(", "x", ")">> \o Bar
                  \o <<"g", "(", "x", ",", " ", "y", ")">>
  /\ req.names = <<<<"x">>, <<"y">>>>
  /\ res.argv = <<Prim("v"), Prim("w")>>
  /\ res.this = Obj([a |-> Prim("p"), x |-> Prim("cx")])
  /\ res.r.tag = "return"
  /\ res.r.val = <<"app", "g", res.this,
                   <<<<"app", "f", res.this, <<Prim("p"), Prim("v")>>>>,
                     Prim("v"), Prim("w")>>>>

CtxX == Obj([x |-> Prim("cx")])

\* the function objects compiled from the getter text x with no extra
\* argument named x
GetterOfX(e) ==
  LET q == hist.made[e.id].q
  IN  /\ q.op = "parse" /\ q.str /\ q.text = <<"x">>
      /\ \A i \in DOMAIN q.names : q.names[i] # <<"x">>

ReadsContext(e) ==
  LET r == binder(e, CtxX, <<>>) IN r.tag = "return" /\ r.val = Prim("cx")

Contains(s, t) ==
  \E i \in 1..(Len(s) - Len(t) + 1) : SubSeq(s, i, i + Len(t) - 1) = t

\* the body parse hands to compileExpression for the text of a getter request
BodyOf(q) ==
  addReturn(TransformText(q.text, getVariables(expGlobals, Undefined, q.names)))

(***************************************************************************)
(* C9: compile-time syntax errors are surfaced.  A compile call that       *)
(* throws "Bad expression" names the original text, the transformed text   *)
(* and the syntax diagnostic in the message and leaves no entry in the     *)
(* cache under its key; and once a key has failed so, every later call for *)
(* that key throws that same error.                                        *)
(***************************************************************************)
C9_SyntaxErrorsSurfaced ==
  IsCompile =>
    /\ (~res.ok /\ IsBadExpression(res.err)) =>
         /\ res.key \notin DOMAIN cache
         /\ res.q.op = "parse" =>
              /\ Contains(res.err.message, res.q.text)
              /\ Contains(res.err.message, BodyOf(res.q))
              /\ Contains(res.err.message, <<"SyntaxError">>)
    /\ res.key \in DOMAIN hist.bad =>
         /\ ~res.ok
         /\ res.err = hist.bad[res.key]
         /\ res.key \notin DOMAIN cache

(***************************************************************************)
(* C10: literal round trip.  Restoring the text pullOutStrings returned,   *)
(* unmodified, gives back exactly the expression that was isolated, and    *)
(* leaves no literal table behind (strings = null, nothing queued).        *)
(***************************************************************************)
C10_RoundTrip ==
  (res.op = "putInStrings" /\ res.ok /\ lit.done /\ res.arg = lit.out)
    => /\ res.out = lit.orig
       /\ strings = NoStrings

\* an expression with a literal holding an escaped delimiter has been
\* isolated and restored
C10_Witness ==
  /\ res.op = "putInStrings" /\ res.ok /\ res.arg = lit.out
  /\ lit.orig = <<DQ, BS, DQ, DQ>>
  /\ lit.out = <<DQ, DQ>>
  /\ res.out = lit.orig

(***************************************************************************)
(* C11: isolate / restore alternation.  Every call of pullOutStrings       *)
(* succeeds exactly when no literal table is pending and every call of     *)
(* putInStrings exactly when one is; a call that fails throws the misuse   *)
(* error of its function and leaves the table, pending or not and the      *)
(* literals queued, as it was.                                             *)
(***************************************************************************)
C11_Alternation ==
  [][ /\ res'.op = "pullOutStrings" =>
           /\ res'.ok <=> ~strings.pending
           /\ res'.ok => strings'.pending
           /\ ~res'.ok => res'.err = MisusePull /\ strings' = strings
      /\ res'.op = "putInStrings" =>
           /\ res'.ok <=> strings.pending
           /\ res'.ok => ~strings'.pending
           /\ ~res'.ok => res'.err = MisusePut /\ strings' = strings ]_vars

\* a second pullOutStrings has failed while the literal of the first is
\* still queued
C11_Witness ==
  /\ res.op = "pullOutStrings" /\ ~res.ok /\ res.err = MisusePull
  /\ strings.pending
  /\ strings.list = <<<<SQ, "a", SQ>>>>

\* a request whose expression is a string that compiles in a freshly loaded
\* module
ValidReq(q) ==
  q.str /\ Compiled(Request(rev, q.op, q.text, Undefined, Undefined, q.names)).ok

(***************************************************************************)
(* C12: the literal table lives only for one compile call.  After every    *)
(* call of parse or parseSetter, whether it returned a callable or threw,  *)
(* no literal table is pending; and a call for a valid expression is never *)
(* refused with the misuse error of pullOutStrings.                        *)
(***************************************************************************)
C12_TableReleased ==
  IsCompile =>
    /\ ~strings.pending
    /\ ValidReq(res.q) => (res.ok \/ res.err # Error("Error", <<MisusePull>>))

\* the assignment text a setter expression stands for: ' = _value_' before
\* the first pipe or at the end, and t = !_value_ for the shorthand !t
Derived(text) ==
  IF text # <<>> /\ text[1] = "!" THEN setterReplace(Tail(text), AsgNotValue)
  ELSE setterReplace(text, AsgValue)

\* what parse of the assignment text with _value_ in front of the names
\* returns or throws when it is called next
AsParse(q) ==
  parse(Cur, Str(Derived(q.text)), Undefined, Undefined, <<<<"_value_">>>> \o q.names)

(***************************************************************************)
(* C13: setter derivation is sugar over parse.  What a call of parseSetter *)
(* returned is what parse returns for the derived assignment text and the  *)
(* names with _value_ put in front: the same function object when the call *)
(* returned one, the same error when it threw.                             *)
(***************************************************************************)
C13_SetterIsParse ==
  (IsCompile /\ res.q.op = "parseSetter") =>
    /\ AsParse(res.q).ok = res.ok
    /\ res.ok => AsParse(res.q).hit /\ AsParse(res.q).func.id = res.id
    /\ ~res.ok => AsParse(res.q).err = res.err

(***************************************************************************)
(* Two compile calls interleaved stage by stage                            *)
(*                                                                         *)
(* Two calls of parse run in one loaded module, and any stage of one may   *)
(* come between two stages of the other: the entry (type check and cache   *)
(* lookup), pullOutStrings, the two transform stages with the return,      *)
(* putInStrings, and compileExpression with the cache entry.  The calls    *)
(* run to completion one after the other in the behaviours where the       *)
(* stages of one call are not separated.  In this specification req holds, *)
(* for each call, the expression it was given, the stage it has reached,   *)
(* its text so far, the literals its pullOutStrings queued (captured) and  *)
(* the literals that were queued when its putInStrings ran (used).         *)
(***************************************************************************)
Calls == {1, 2}

StageExprs ==
  { Str(<<SQ, "a", SQ>>), Str(<<DQ, "b", DQ>>), Str(<<"x">>), NonStr(<<"42">>) }

NewCall(e) ==
  [expr |-> e, pc |-> "called", text |-> <<>>, pulled |-> <<>>, captured |-> <<>>,
   used |-> <<>>, err |-> NoError, id |-> 0]

InitStages ==
  /\ rev \in Revs
  /\ strings = NoStrings
  /\ cache = <<>>
  /\ valueProperty = <<"_value_">>
  /\ expGlobals = <<>>
  /\ callerArgs = <<>>
  /\ nextId = 1
  /\ lit = NoLit
  /\ req \in [Calls -> {NewCall(e) : e \in StageExprs}]
  /\ res = NoRes
  /\ hist = NoHist

StageRes(op, c, ok, err) == [op |-> op, call |-> c, ok |-> ok, err |-> err]

\* the call throws err out of stage op
Thrown(op, c, err) ==
  /\ req' = [req EXCEPT ![c].pc = "thrown", ![c].err = err]
  /\ res' = StageRes(op, c, FALSE, err)

\* parse up to isSetter: lines 12-24 and 114-123, no extra arguments
Begin(c) ==
  /\ req[c].pc = "called"
  /\ IF rev = "variadic" /\ ~req[c].expr.str
     THEN Thrown("begin", c, Error("TypeError", <<"Invalid expr, must be type String">>))
     ELSE IF cacheKey(req[c].expr.text, <<>>) \in DOMAIN cache
     THEN /\ req' = [req EXCEPT ![c].pc = "returned",
                                ![c].id = cache[cacheKey(req[c].expr.text, <<>>)].id]
          /\ res' = StageRes("begin", c, TRUE, NoError)
     ELSE /\ req' = [req EXCEPT ![c].pc = "begun"]
          /\ res' = StageRes("begin", c, TRUE, NoError)
  /\ UNCHANGED <<rev, strings, cache, valueProperty, expGlobals, callerArgs, nextId,
                 lit, hist>>

\* expr = strings.pullOutStrings(expr): lines 26 and 130.  For an expr that
\* is not a string the table is set before expr.replace throws.
Isolate(c) ==
  /\ req[c].pc = "begun"
  /\ \E r \in {pullOutStrings(strings,
                               IF req[c].expr.str THEN req[c].expr.text ELSE <<>>)} :
       /\ strings' = r.strings
       /\ IF ~r.ok THEN Thrown("isolate", c, Error("Error", <<r.err>>))
          ELSE IF ~req[c].expr.str
          THEN Thrown("isolate", c,
                      Error("TypeError", <<"expr.replace is not a function">>))
          ELSE /\ req' = [req EXCEPT ![c].pc = "isolated", ![c].text = r.out,
                                     ![c].pulled = r.out,
                                     ![c].captured = r.strings.list]
               /\ res' = StageRes("isolate", c, TRUE, NoError)
  /\ UNCHANGED <<rev, cache, valueProperty, expGlobals, callerArgs, nextId, lit,
                 hist>>

\* parseFormatters, parseExpression and the return: lines 27-33 and 131-137
Rewrite(c) ==
  /\ req[c].pc = "isolated"
  /\ req' = [req EXCEPT ![c].pc = "rewritten",
                        ![c].text = returned(FALSE,
                                      TransformText(req[c].pulled,
                                        getVariables(expGlobals, Undefined, <<>>)))]
  /\ res' = StageRes("rewrite", c, TRUE, NoError)
  /\ UNCHANGED <<rev, strings, cache, valueProperty, expGlobals, callerArgs, nextId,
                 lit, hist>>

\* expr = strings.putInStrings(expr): lines 34 and 138
Restore(c) ==
  /\ req[c].pc = "rewritten"
  /\ \E r \in {putInStrings(strings, req[c].text)} :
       /\ strings' = r.strings
       /\ IF ~r.ok THEN Thrown("restore", c, Error("Error", <<r.err>>))
          ELSE /\ req' = [req EXCEPT ![c].pc = "restored", ![c].text = r.out,
                                     ![c].used = strings.list]
               /\ res' = StageRes("restore", c, TRUE, NoError)
  /\ UNCHANGED <<rev, cache, valueProperty, expGlobals, callerArgs, nextId, lit,
                 hist>>

\* compileExpression, func.expr, the cache entry and the return: lines
\* 35-38 and 139-142
Finish(c) ==
  /\ req[c].pc = "restored"
  /\ \E out \in {compiled(Cur, cacheKey(req[c].expr.text, <<>>), req[c].text,
                           compileExpression(req[c].expr.text, req[c].text,
                             Transform(req[c].pulled,
                                       getVariables(expGlobals, Undefined, <<>>)),
                             req[c].used, Undefined, Undefined, <<>>))} :
       /\ cache' = out.cache
       /\ nextId' = out.nextId
       /\ IF ~out.ok THEN Thrown("finish", c, out.err)
          ELSE /\ req' = [req EXCEPT ![c].pc = "returned", ![c].id = out.func.id]
               /\ res' = StageRes("finish", c, TRUE, NoError)
  /\ UNCHANGED <<rev, strings, valueProperty, expGlobals, callerArgs, lit, hist>>

NextStages ==
  \E c \in Calls : Begin(c) \/ Isolate(c) \/ Rewrite(c) \/ Restore(c) \/ Finish(c)

SpecStages == InitStages /\ [][NextStages]_vars

(***************************************************************************)
(* C14: no literal leak between interleaved compiles.  In every step of    *)
(* two compile calls interleaved stage by stage, a putInStrings that       *)
(* succeeds substitutes the literals the pullOutStrings of the same call   *)
(* queued, and a pullOutStrings attempted while a table is pending throws  *)
(* the misuse error and leaves the table as it was.                        *)
(***************************************************************************)
C14_NoLiteralLeak ==
  [][ /\ (res'.op = "restore" /\ res'.ok) =>
           /\ req[res'.call].pc = "rewritten"
           /\ strings.pending
           /\ strings.list = req[res'.call].captured
      /\ (res'.op = "isolate" /\ req[res'.call].pc = "begun" /\ strings.pending) =>
           /\ ~res'.ok
           /\ res'.err = Error("Error", <<MisusePull>>)
           /\ strings' = strings ]_vars

\* the first call was refused by pullOutStrings while the literal of the
\* second was queued, and the second has put its own literal back
C14_Witness ==
  /\ res.op = "restore" /\ res.ok /\ res.call = 2
  /\ req[1].pc = "thrown" /\ req[1].err = Error("Error", <<MisusePull>>)
  /\ req[1].expr = Str(<<SQ, "a", SQ>>)
  /\ req[2].captured = <<<<DQ, "b", DQ>>>>
  /\ req[2].used = req[2].captured
  /\ req[2].text = <<"return ", DQ, "b", DQ>>

\* the callable the last call returned, called with the value v on an empty
\* binding context, leaves v in the property x of the context
AssignsX(v) ==
  /\ res.key \in DOMAIN cache
  /\ binder(cache[res.key], Obj(<<>>), <<v>>).this = Obj([x |-> v])

(***************************************************************************)
(* C15: setter compilation changes no shared or caller-owned state but the *)
(* cache.  After every sequence of parse and parseSetter calls the value   *)
(* placeholder is still _value_ and the extra-argument list the caller     *)
(* passed to the last call is as the caller made it; and a parseSetter for *)
(* the target x, x not a default global, that is not refused for a pending *)
(* literal table returns a callable that assigns the value it is passed.   *)
(***************************************************************************)
C15_NoSharedMutation ==
  /\ valueProperty = <<"_value_">>
  /\ IsCompile => callerArgs = res.q.names
  /\ (/\ IsCompile
      /\ res.q = CompileReq("parseSetter", TRUE, <<"x">>, <<>>)
      /\ <<"x">> \notin DOMAIN expGlobals
      /\ res.err # Error("Error", <<MisusePull>>)) =>
       res.ok /\ AssignsX(Prim("v"))

====
